---- MODULE Spec2Model ----
(***************************************************************************)
(* Model of the three DAG validators of scripts/: check_dag_naming.py,     *)
(* check_dag_resources.py and validate_dags.py.  A run picks a tool, a     *)
(* mode (explicit files or directory scan), and a file system; it then     *)
(* evaluates the files one by one, prints its report and exits.            *)
(*                                                                         *)
(* Python strings are sequences of one-character strings, so that split,   *)
(* re.match, substring tests and f-string formatting are computed as the   *)
(* interpreter computes them.                                              *)
(***************************************************************************)
EXTENDS Integers, Sequences, FiniteSets, TLC

(* ------------------------------ bounds -------------------------------- *)
\* longest identifier drawn character by character
MaxLen == 4
\* largest integer literal written for a resource limit
MaxVal == 11
\* longest list of files handed to one batch run
MaxFiles == 2

(* ------------------------- string primitives -------------------------- *)
Lower == {"a","b","c","d","e","f","g","h","i","j","k","l","m",
          "n","o","p","q","r","s","t","u","v","w","x","y","z"}
Digit == {"0","1","2","3","4","5","6","7","8","9"}
\* the character class [a-z0-9-]
TenantClass == Lower \cup Digit \cup {"-"}
\* the character class [a-z0-9_]
NameClass == Lower \cup Digit \cup {"_"}

\* s[i..j] as Python's s[i-1:j]
Slice(s, i, j) == SubSeq(s, i, j)

\* Python's  sub in s  on strings
Contains(s, sub) ==
    \E i \in 0..(Len(s) - Len(sub)) : Slice(s, i + 1, i + Len(sub)) = sub

\* Python's  s.startswith(p)
StartsWith(s, p) == Len(p) <= Len(s) /\ Slice(s, 1, Len(p)) = p

\* index of the first occurrence of character c in s, 0 when there is none
FirstIndex(s, c) ==
    IF \E i \in 1..Len(s) : s[i] = c
    THEN CHOOSE i \in 1..Len(s) : s[i] = c /\ \A j \in 1..(i - 1) : s[j] # c
    ELSE 0

\* index of the last occurrence of character c in s, 0 when there is none
LastIndex(s, c) ==
    IF \E i \in 1..Len(s) : s[i] = c
    THEN CHOOSE i \in 1..Len(s) : s[i] = c /\ \A j \in (i + 1)..Len(s) : s[j] # c
    ELSE 0

\* s.rsplit(sep, 1): the split at the last separator
RSplit1(s, sep) ==
    LET i == LastIndex(s, sep)
    IN  IF i = 0 THEN <<s>>
        ELSE <<Slice(s, 1, i - 1), Slice(s, i + 1, Len(s))>>

\* Python's  s.split(sep, 1)
Split1(s, sep) ==
    LET i == FirstIndex(s, sep)
    IN  IF i = 0 THEN <<s>>
        ELSE <<Slice(s, 1, i - 1), Slice(s, i + 1, Len(s))>>

AllIn(s, class) == \A i \in 1..Len(s) : s[i] \in class

\* Python's  re.match(r'^[class]+$', s): without re.MULTILINE, $ matches at
\* the end of the string and also just before a newline that ends the string
ReMatchPlus(class, s) ==
    \/ Len(s) >= 1 /\ AllIn(s, class)
    \/ /\ Len(s) >= 2
       /\ s[Len(s)] = "\n"
       /\ AllIn(Slice(s, 1, Len(s) - 1), class)

\* decimal digits of a natural number
RECURSIVE NatStr(_)
NatStr(n) ==
    LET d == <<"0","1","2","3","4","5","6","7","8","9">>[(n % 10) + 1]
    IN  IF n < 10 THEN <<d>> ELSE NatStr(n \div 10) \o <<d>>

\* Python's str(n) on an int
IntStr(n) == IF n < 0 THEN <<"-">> \o NatStr(0 - n) ELSE NatStr(n)

(* --------------------------- Python values ---------------------------- *)
\* the literal constants a keyword argument can carry (ast.Constant.value)
StrV(s) == [t |-> "str", s |-> s, n |-> 0]
IntV(k) == [t |-> "int", s |-> <<>>, n |-> k]
NoneV == [t |-> "none", s |-> <<>>, n |-> 0]

\* Python truthiness:  not v
Falsy(v) ==
    \/ v.t = "none"
    \/ v.t = "str" /\ v.s = <<>>
    \/ v.t = "int" /\ v.n = 0

M_None == <<"N","o","n","e">>
T_data_engineering ==
    <<"d","a","t","a","-","e","n","g","i","n","e","e","r","i","n","g">>
T_analytics == <<"a","n","a","l","y","t","i","c","s">>
T_ml_team == <<"m","l","-","t","e","a","m">>
T_data_science == <<"d","a","t","a","-","s","c","i","e","n","c","e">>
T_platform == <<"p","l","a","t","f","o","r","m">>
T_devops == <<"d","e","v","o","p","s">>

\* Python's str(v), as an f-string formats a value
Format(v) ==
    IF v.t = "str" THEN v.s
    ELSE IF v.t = "int" THEN IntStr(v.n)
    ELSE M_None

(* ------------------------------- paths -------------------------------- *)
\* Path(__file__).parent.parent
project_root == <<"/","r">>
\* project_root / 'dags'
dags_dir == project_root \o <<"/","d">>

\* Path.is_absolute()
IsAbsolute(p) == StartsWith(p, <<"/">>)
\* project_root / p
Join(root, p) == root \o <<"/">> \o p
\* Path.parent of an absolute path
Parent(p) == Slice(p, 1, LastIndex(p, "/") - 1)
\* Path.name
BaseName(p) == Slice(p, LastIndex(p, "/") + 1, Len(p))
\* Path.stem: the name without its last suffix
Stem(p) ==
    LET nm == BaseName(p)
        i == LastIndex(nm, ".")
    IN  IF i <= 1 THEN nm ELSE Slice(nm, 1, i - 1)
\* p lies below directory dir
IsUnder(p, dir) == StartsWith(p, dir \o <<"/">>)
\* Path.relative_to(root) raises ValueError when p is not below root
RelativeToRaises(p, root) == ~(p = root \/ IsUnder(p, root))
RelativeTo(p, root) ==
    IF p = root THEN <<".">> ELSE Slice(p, Len(root) + 2, Len(p))

(* --------------------------- the file system -------------------------- *)
\* A file is [arg, exists, parses, calls, import_error, dags, bag_raises]:
\*   arg          its path as written on the command line or found by rglob
\*   exists       whether it can be opened
\*   parses       whether ast.parse accepts its text
\*   calls        the Call nodes of its tree in ast.walk order, each
\*                [func, keywords], a keyword being [arg, literal, value]
\*   import_error whether the registry fails to import it
\*   dags         the workflows it registers when imported, each
\*                [dag_id, max_active_runs, max_active_tasks]
\*   bag_raises   whether building the registry for its directory raises
Kw(a, v) == [arg |-> a, literal |-> TRUE, value |-> v]
KwExpr(a) == [arg |-> a, literal |-> FALSE, value |-> NoneV]
Call(f, kws) == [func |-> f, keywords |-> kws]
Dag(id, r, t) == [dag_id |-> id, max_active_runs |-> r, max_active_tasks |-> t]
File(a, calls, dags) ==
    [arg |-> a, exists |-> TRUE, parses |-> TRUE, calls |-> calls,
     import_error |-> FALSE, dags |-> dags, bag_raises |-> FALSE]

\* the absolute path main() gives a command-line argument
Resolve(a) == IF IsAbsolute(a) THEN a ELSE Join(project_root, a)
PathOf(f) == Resolve(f.arg)

\* DagBag(dag_folder=folder).dags over the file system fs: the workflows of
\* every importable file below folder, each with its fileloc
RECURSIVE BagDags(_, _)
BagDags(fs, folder) ==
    IF fs = <<>> THEN <<>>
    ELSE LET f == Head(fs)
             mine == IF f.exists /\ ~f.import_error /\ IsUnder(PathOf(f), folder)
                     THEN [i \in 1..Len(f.dags) |->
                              [dag_id |-> f.dags[i].dag_id,
                               fileloc |-> PathOf(f),
                               max_active_runs |-> f.dags[i].max_active_runs,
                               max_active_tasks |-> f.dags[i].max_active_tasks]]
                     ELSE <<>>
         IN  mine \o BagDags(Tail(fs), folder)

\* DagBag(dag_folder=folder).import_errors: the paths of the files below
\* folder that failed to import
RECURSIVE BagImportErrors(_, _)
BagImportErrors(fs, folder) ==
    IF fs = <<>> THEN <<>>
    ELSE LET f == Head(fs)
             mine == IF f.exists /\ f.import_error /\ IsUnder(PathOf(f), folder)
                     THEN <<PathOf(f)>> ELSE <<>>
         IN  mine \o BagImportErrors(Tail(fs), folder)

(* ------------------------- check_dag_naming.py ------------------------ *)
KNOWN_TENANTS ==
    {T_data_engineering, T_analytics, T_ml_team, T_data_science, T_platform, T_devops}

M_Empty ==
    <<"D","A","G"," ","I","D"," ","i","s"," ","e","m","p","t","y">>
M_DagId == <<"D","A","G"," ","I","D"," ","'">>
M_Format ==
    <<"'"," ","m","u","s","t"," ","f","o","l","l","o","w"," ","f","o","r","m","a","t",":"," ",
      "{","t","e","n","a","n","t","}","_","{","n","a","m","e","}">>
M_EmptyTenant ==
    <<"'"," ","h","a","s"," ","e","m","p","t","y"," ","t","e","n","a","n","t"," ","p","r","e",
      "f","i","x">>
M_EmptyName ==
    <<"'"," ","h","a","s"," ","e","m","p","t","y"," ","n","a","m","e"," ","a","f","t","e","r",
      " ","t","e","n","a","n","t"," ","p","r","e","f","i","x">>
M_BadTenant ==
    <<"'"," ","h","a","s"," ","i","n","v","a","l","i","d"," ","t","e","n","a","n","t"," ","f",
      "o","r","m","a","t"," ","(","u","s","e"," ","l","o","w","e","r","c","a","s","e",",",
      " ","a","l","p","h","a","n","u","m","e","r","i","c",","," ","h","y","p","h","e","n",
      "s",")">>
M_BadName ==
    <<"'"," ","h","a","s"," ","i","n","v","a","l","i","d"," ","n","a","m","e"," ","f","o","r",
      "m","a","t"," ","(","u","s","e"," ","l","o","w","e","r","c","a","s","e",","," ","a",
      "l","p","h","a","n","u","m","e","r","i","c",","," ","u","n","d","e","r","s","c","o",
      "r","e","s",")">>
M_WarnHead ==
    <<"W","a","r","n","i","n","g",":"," ","U","n","k","n","o","w","n"," ","t","e","n","a","n",
      "t"," ","'">>
M_WarnTail ==
    <<"'"," ","(","D","A","G"," ","I","D"," ","i","s"," ","v","a","l","i","d"," ","b","u","t",
      " ","t","e","n","a","n","t"," ","n","o","t"," ","i","n"," ","k","n","o","w","n"," ",
      "l","i","s","t",")">>
M_Valid == <<"V","a","l","i","d">>
M_Warning == <<"W","a","r","n","i","n","g">>
M_NoDagId ==
    <<"N","o"," ","D","A","G"," ","I","D"," ","f","o","u","n","d"," ","i","n"," ","f","i","l",
      "e">>
M_Sep == <<":"," ">>

\* the literal dag_id keywords of one Call node
RECURSIVE KeywordDagIds(_)
KeywordDagIds(kws) ==
    IF kws = <<>> THEN <<>>
    ELSE LET k == Head(kws)
         IN  (IF k.arg = "dag_id" /\ k.literal THEN <<k.value>> ELSE <<>>)
             \o KeywordDagIds(Tail(kws))

RECURSIVE WalkDagIds(_)
WalkDagIds(calls) ==
    IF calls = <<>> THEN <<>>
    ELSE LET c == Head(calls)
         IN  (IF c.func = "DAG" THEN KeywordDagIds(c.keywords) ELSE <<>>)
             \o WalkDagIds(Tail(calls))

\* extract_dag_id_from_file: open or ast.parse failing leaves the list empty
extract_dag_id_from_file(f) ==
    IF f.exists /\ f.parses THEN WalkDagIds(f.calls) ELSE <<>>

Ret(ok, msg) == [raised |-> FALSE, ok |-> ok, message |-> msg]
Raised == [raised |-> TRUE, ok |-> FALSE, message |-> <<>>]

\* check_naming_convention(dag_id); '_' in dag_id raises TypeError on a
\* truthy value that is not a string
check_naming_convention(dag_id) ==
    IF Falsy(dag_id) THEN Ret(FALSE, M_Empty)
    ELSE IF dag_id.t # "str" THEN Raised
    ELSE
      LET s == dag_id.s
          parts == Split1(s, "_")
      IN  IF ~Contains(s, <<"_">>) THEN Ret(FALSE, M_DagId \o s \o M_Format)
          ELSE IF Len(parts) # 2 THEN Ret(FALSE, M_DagId \o s \o M_Format)
          ELSE
            LET tenant == parts[1]
                name == parts[2]
            IN  IF tenant = <<>> THEN Ret(FALSE, M_DagId \o s \o M_EmptyTenant)
                ELSE IF name = <<>> THEN Ret(FALSE, M_DagId \o s \o M_EmptyName)
                ELSE IF ~ReMatchPlus(TenantClass, tenant)
                     THEN Ret(FALSE, M_DagId \o s \o M_BadTenant)
                ELSE IF ~ReMatchPlus(NameClass, name)
                     THEN Ret(FALSE, M_DagId \o s \o M_BadName)
                ELSE IF tenant \notin KNOWN_TENANTS
                     THEN Ret(TRUE, M_WarnHead \o tenant \o M_WarnTail)
                ELSE Ret(TRUE, M_Valid)

\* a merge that never consults the registry
MergeDagIdsStaticOnly(dag_ids, entries, path) == dag_ids

\* the registry loop of check_dag_file: append the ids of the entries whose
\* fileloc contains the file's path and that are not in the list yet
RECURSIVE MergeDagIds(_, _, _)
MergeDagIds(dag_ids, entries, path) ==
    IF entries = <<>> THEN dag_ids
    ELSE LET e == Head(entries)
             hit == Contains(e.fileloc, path)
                    /\ ~\E i \in 1..Len(dag_ids) : dag_ids[i] = StrV(e.dag_id)
         IN  MergeDagIds(IF hit THEN Append(dag_ids, StrV(e.dag_id)) ELSE dag_ids,
                         Tail(entries), path)

\* a return statement that also counts the warnings against validity
VerdictNoWarnings(errs, warns) ==
    [raised |-> FALSE, is_valid |-> Len(errs) = 0 /\ Len(warns) = 0,
     errors |-> errs, warnings |-> warns]

\* return len(errors) == 0, errors, warnings
Verdict(errs, warns) ==
    [raised |-> FALSE, is_valid |-> Len(errs) = 0, errors |-> errs, warnings |-> warns]
VerdictRaised == [raised |-> TRUE, is_valid |-> FALSE, errors |-> <<>>, warnings |-> <<>>]

\* the loop over dag_ids of check_dag_file, with the verdict so far in acc
RECURSIVE CheckEach(_, _)
CheckEach(dag_ids, acc) ==
    IF dag_ids = <<>> \/ acc.raised THEN acc
    ELSE LET dag_id == Head(dag_ids)
             r == check_naming_convention(dag_id)
             line == Format(dag_id) \o M_Sep \o r.message
         IN  CheckEach(Tail(dag_ids),
                 IF r.raised THEN VerdictRaised
                 ELSE IF ~r.ok THEN Verdict(Append(acc.errors, line), acc.warnings)
                 ELSE IF Contains(r.message, M_Warning)
                      THEN Verdict(acc.errors, Append(acc.warnings, line))
                 ELSE acc)

\* the identifiers check_dag_file evaluates: static ones first, then the
\* registry's; a registry load that raises adds nothing
NamingDagIds(f, fs) ==
    LET static == extract_dag_id_from_file(f)
    IN  IF f.bag_raises THEN static
        ELSE MergeDagIds(static, BagDags(fs, Parent(PathOf(f))), PathOf(f))

\* check_dag_file(dag_file) of the naming checker
check_dag_file(f, fs) ==
    LET dag_ids == NamingDagIds(f, fs)
        v == CheckEach(dag_ids, Verdict(<<>>, <<>>))
    IN  IF v.raised THEN v
        ELSE IF dag_ids = <<>>
             THEN Verdict(Append(v.errors, M_NoDagId), v.warnings)
        ELSE v

(* ------------------------ check_dag_resources.py ---------------------- *)
DEFAULT_MAX_ACTIVE_RUNS == 1
DEFAULT_MAX_ACTIVE_TASKS == 3
MAX_ALLOWED_ACTIVE_RUNS == 5
MAX_ALLOWED_ACTIVE_TASKS == 10

M_RunsNotSet ==
    <<":"," ","m","a","x","_","a","c","t","i","v","e","_","r","u","n","s"," ","n","o","t"," ",
      "s","e","t"," ","(","r","e","c","o","m","m","e","n","d","e","d",":"," ">>
M_RunsEq ==
    <<":"," ","m","a","x","_","a","c","t","i","v","e","_","r","u","n","s","=">>
M_TasksNotSet ==
    <<":"," ","m","a","x","_","a","c","t","i","v","e","_","t","a","s","k","s"," ","n","o","t",
      " ","s","e","t"," ","(","r","e","c","o","m","m","e","n","d","e","d",":"," ">>
M_TasksEq ==
    <<":"," ","m","a","x","_","a","c","t","i","v","e","_","t","a","s","k","s","=">>
M_Exceeds ==
    <<" ","e","x","c","e","e","d","s"," ","m","a","x","i","m","u","m"," ","a","l","l","o","w",
      "e","d"," ","(">>
M_Higher ==
    <<" ","i","s"," ","h","i","g","h","e","r"," ","t","h","a","n"," ","r","e","c","o","m","m",
      "e","n","d","e","d"," ","(">>
M_Close == <<")">>

\* the config dict extract_dag_config_from_file starts from
EmptyConfig == [dag_id |-> NoneV, max_active_runs |-> NoneV, max_active_tasks |-> NoneV]

\* the keyword loop over one Call node: a literal value is stored under its
\* key, anything else leaves the key as it was
RECURSIVE KeywordConfig(_, _)
KeywordConfig(kws, config) ==
    IF kws = <<>> THEN config
    ELSE LET k == Head(kws)
             known == k.arg \in {"dag_id", "max_active_runs", "max_active_tasks"}
         IN  KeywordConfig(Tail(kws),
                 IF known /\ k.literal THEN [config EXCEPT ![k.arg] = k.value]
                 ELSE config)

RECURSIVE WalkConfig(_, _)
WalkConfig(calls, config) ==
    IF calls = <<>> THEN config
    ELSE LET c == Head(calls)
         IN  WalkConfig(Tail(calls),
                 IF c.func = "DAG" THEN KeywordConfig(c.keywords, config) ELSE config)

\* extract_dag_config_from_file: open or ast.parse failing leaves every key None
extract_dag_config_from_file(f) ==
    IF f.exists /\ f.parses THEN WalkConfig(f.calls, EmptyConfig) ELSE EmptyConfig

\* the registry loop of check_dag_resources over the entries whose fileloc
\* contains the file's path
RECURSIVE MergeConfig(_, _, _)
MergeConfig(config, entries, path) ==
    IF entries = <<>> THEN config
    ELSE LET e == Head(entries)
             c1 == IF Falsy(config.dag_id)
                   THEN [config EXCEPT !.dag_id = StrV(e.dag_id)] ELSE config
             c2 == IF c1.max_active_runs.t = "none"
                   THEN [c1 EXCEPT !.max_active_runs = e.max_active_runs] ELSE c1
             c3 == IF c2.max_active_tasks.t = "none"
                   THEN [c2 EXCEPT !.max_active_tasks = e.max_active_tasks] ELSE c2
         IN  MergeConfig(IF Contains(e.fileloc, path) THEN c3 ELSE config,
                         Tail(entries), path)

\* the config check_dag_resources evaluates; a registry load that raises
\* leaves the static config as it is
ResourceConfig(f, fs) ==
    LET static == extract_dag_config_from_file(f)
    IN  IF f.bag_raises THEN static
        ELSE MergeConfig(static, BagDags(fs, Parent(PathOf(f))), PathOf(f))

\* the chain with  >=  where the code compares with  >
CheckLimitInclusive(acc, dag_id, value, notSet, eq, default, ceiling) ==
    IF acc.raised THEN acc
    ELSE IF value.t = "none"
         THEN [acc EXCEPT !.warnings = Append(@, Format(dag_id) \o notSet)]
    ELSE IF value.t # "int" THEN [acc EXCEPT !.raised = TRUE]
    ELSE IF value.n >= ceiling
         THEN [acc EXCEPT !.is_valid = FALSE,
                          !.errors = Append(@, Format(dag_id) \o eq \o M_Exceeds)]
    ELSE IF value.n >= default
         THEN [acc EXCEPT !.warnings = Append(@, Format(dag_id) \o eq \o M_Higher)]
    ELSE acc

\* one of the two if/elif chains of check_dag_resources, on the verdict so
\* far; value > limit raises TypeError when value is a string
CheckLimit(acc, dag_id, value, notSet, eq, default, ceiling) ==
    IF acc.raised THEN acc
    ELSE IF value.t = "none"
         THEN Verdict(acc.errors,
                  Append(acc.warnings,
                         Format(dag_id) \o notSet \o IntStr(default) \o M_Close))
    ELSE IF value.t # "int" THEN VerdictRaised
    ELSE IF value.n > ceiling
         THEN Verdict(Append(acc.errors,
                             Format(dag_id) \o eq \o Format(value) \o M_Exceeds
                                 \o IntStr(ceiling) \o M_Close),
                      acc.warnings)
    ELSE IF value.n > default
         THEN Verdict(acc.errors,
                      Append(acc.warnings,
                             Format(dag_id) \o eq \o Format(value) \o M_Higher
                                 \o IntStr(default) \o M_Close))
    ELSE acc

\* check_dag_resources(dag_file)
check_dag_resources(f, fs) ==
    LET config == ResourceConfig(f, fs)
        dag_id == IF Falsy(config.dag_id) THEN StrV(Stem(PathOf(f))) ELSE config.dag_id
        v1 == CheckLimit(Verdict(<<>>, <<>>), dag_id, config.max_active_runs,
                         M_RunsNotSet, M_RunsEq,
                         DEFAULT_MAX_ACTIVE_RUNS, MAX_ALLOWED_ACTIVE_RUNS)
    IN  CheckLimit(v1, dag_id, config.max_active_tasks,
                   M_TasksNotSet, M_TasksEq,
                   DEFAULT_MAX_ACTIVE_TASKS, MAX_ALLOWED_ACTIVE_TASKS)

(* --------------------------- validate_dags.py ------------------------- *)
M_NotFoundFile ==
    <<"D","A","G"," ","f","i","l","e"," ","n","o","t"," ","f","o","u","n","d",":"," ">>
M_ImportErr ==
    <<"I","m","p","o","r","t"," ","e","r","r","o","r"," ","i","n"," ">>
M_DagNotFound ==
    <<"D","A","G"," ","n","o","t"," ","f","o","u","n","d"," ","i","n"," ">>
M_CheckDef ==
    <<" ","-"," ","c","h","e","c","k"," ","f","o","r"," ","D","A","G"," ","d","e","f","i","n",
      "i","t","i","o","n">>
\* the error text the registry records for a file that fails to import
ImportErrorText == <<"E","r","r">>

\* the import_errors loop of validate_dag_file: one message for every failed
\* path that contains the file's path or the file's name
RECURSIVE ImportErrorsFor(_, _)
ImportErrorsFor(failed, path) ==
    IF failed = <<>> THEN <<>>
    ELSE LET file_path == Head(failed)
             hit == Contains(file_path, path) \/ Contains(file_path, BaseName(path))
         IN  (IF hit
              THEN <<M_ImportErr \o BaseName(path) \o M_Sep \o ImportErrorText>>
              ELSE <<>>)
             \o ImportErrorsFor(Tail(failed), path)

\* a test that takes any workflow of the directory for the file's own
DagLoadedAny(entries, path) == entries # <<>>

\* whether some registered workflow's fileloc contains the file's path
DagLoaded(entries, path) ==
    \E i \in 1..Len(entries) : Contains(entries[i].fileloc, path)

\* validate_dag_file(dag_file); the registry load is not guarded here
validate_dag_file(f, fs) ==
    LET path == PathOf(f)
        folder == Parent(path)
        errors == ImportErrorsFor(BagImportErrors(fs, folder), path)
    IN  IF ~f.exists
        THEN [raised |-> FALSE, is_valid |-> FALSE,
              errors |-> <<M_NotFoundFile \o path>>, warnings |-> <<>>]
        ELSE IF f.bag_raises THEN VerdictRaised
        ELSE IF ~DagLoaded(BagDags(fs, folder), path) /\ errors = <<>>
             THEN Verdict(<<M_DagNotFound \o BaseName(path) \o M_CheckDef>>, <<>>)
        ELSE Verdict(errors, <<>>)

(* ------------------------------ the run ------------------------------- *)
VARIABLES
    tool,            \* "naming", "resources" or "validate": the script run
    fs,              \* the file system: a sequence of files
    argv,            \* sys.argv[1:], as the files the arguments name
    files_to_check,  \* files_to_check of main, dag_files of the batch functions
    idx,             \* how many of files_to_check the loop has been through
    pc,              \* "start", "loop", "warnings", "result", "done", "crashed"
    verdict,         \* what the per-file function returned last
    all_valid,       \* all_valid of main, is_valid of the batch functions
    all_errors,      \* dict: relative path -> errors, in insertion order
    all_warnings,    \* dict: relative path -> warnings, in insertion order
    out,             \* the lines printed so far
    exit_code        \* what main returned; -1 while it has not

vars == <<tool, fs, argv, files_to_check, idx, pc, verdict, all_valid,
          all_errors, all_warnings, out, exit_code>>

\* d[key] = val on a dict kept as a sequence of [key, val] in insertion order
DictSet(d, key, val) ==
    IF \E i \in 1..Len(d) : d[i].key = key
    THEN [i \in 1..Len(d) |-> IF d[i].key = key THEN [key |-> key, val |-> val] ELSE d[i]]
    ELSE Append(d, [key |-> key, val |-> val])
DictKeys(d) == {d[i].key : i \in 1..Len(d)}

M_Py == <<".","p","y">>
M_Init == <<"_","_","i","n","i","t","_","_",".","p","y">>
M_Test == <<"t","e","s","t","_">>

\* Python's s.endswith(p)
EndsWith(s, p) == Len(p) <= Len(s) /\ Slice(s, Len(s) - Len(p) + 1, Len(s)) = p

\* dags_dir.rglob('*.py') followed by the filter on the file name
RECURSIVE Discover(_)
Discover(files) ==
    IF files = <<>> THEN <<>>
    ELSE LET f == Head(files)
             nm == BaseName(PathOf(f))
             keep == /\ f.exists
                     /\ IsUnder(PathOf(f), dags_dir)
                     /\ EndsWith(nm, M_Py)
                     /\ nm # M_Init
                     /\ ~StartsWith(nm, M_Test)
         IN  (IF keep THEN <<f>> ELSE <<>>) \o Discover(Tail(files))

Line(kind, text) == [kind |-> kind, text |-> text]

\* the lines of one printed block: per file its path, then its messages
RECURSIVE BlockLines(_, _)
BlockLines(d, kind) ==
    IF d = <<>> THEN <<>>
    ELSE <<Line("file", Head(d).key)>>
         \o [i \in 1..Len(Head(d).val) |-> Line(kind, Head(d).val[i])]
         \o BlockLines(Tail(d), kind)

NoVerdict == Verdict(<<>>, <<>>)

\* main() up to its loop, or the batch function up to its loop
Start ==
    /\ pc = "start"
    /\ files_to_check' = IF argv # <<>> THEN argv ELSE Discover(fs)
    /\ all_valid' = TRUE
    /\ all_errors' = <<>>
    /\ all_warnings' = <<>>
    /\ pc' = IF files_to_check' = <<>> THEN (IF tool = "validate" THEN "result" ELSE "warnings")
             ELSE "loop"
    /\ UNCHANGED <<tool, fs, argv, idx, verdict, out, exit_code>>

\* a loop that lets a warning clear all_valid too
ClearsValidOnWarnings(v) == ~v.is_valid \/ v.warnings # <<>>

\* `if not is_valid:` of the loops of main
ClearsValid(v) == ~v.is_valid

\* a loop that stores every verdict's lists, empty ones too
LoopBodyDense(v, f, explicit, strict) ==
    LET path == PathOf(f)
        crash == v.raised \/ RelativeToRaises(path, project_root)
        key == RelativeTo(path, project_root)
        last == idx + 1 = Len(files_to_check)
    IN  /\ idx' = idx + 1
        /\ verdict' = v
        /\ IF crash
           THEN /\ pc' = "crashed"
                /\ exit_code' = 1
                /\ all_valid' = IF explicit /\ ~v.raised /\ ~v.is_valid THEN FALSE ELSE all_valid
                /\ UNCHANGED <<all_errors, all_warnings>>
           ELSE /\ all_errors' = DictSet(all_errors, key, v.errors)
                /\ all_warnings' = DictSet(all_warnings, key, v.warnings)
                /\ all_valid' = IF explicit
                                THEN (IF ~v.is_valid THEN FALSE ELSE all_valid)
                                ELSE (IF last THEN all_errors' = <<>> ELSE all_valid)
                /\ pc' = IF ~last THEN "loop"
                         ELSE IF tool = "validate" THEN "result" ELSE "warnings"
                /\ UNCHANGED exit_code
        /\ UNCHANGED <<tool, fs, argv, files_to_check, out>>

\* One pass of a per-file loop on verdict v of file f.
\*   explicit: the loop of main (all_valid is cleared by an invalid verdict)
\*             against the loop of a batch function (is_valid is computed
\*             from all_errors when the function returns)
\*   strict:   validate_dags stores the errors under `if not is_valid`,
\*             the other two under `if errors`
\* An exception out of the per-file function or out of relative_to ends the
\* process with a traceback and status 1.
LoopBody(v, f, explicit, strict) ==
    LET path == PathOf(f)
        storeErrors == IF strict THEN ClearsValid(v) ELSE v.errors # <<>>
        storeWarnings == v.warnings # <<>>
        crash == \/ v.raised
                 \/ (storeErrors \/ storeWarnings) /\ RelativeToRaises(path, project_root)
        key == RelativeTo(path, project_root)
        last == idx + 1 = Len(files_to_check)
    IN  /\ idx' = idx + 1
        /\ verdict' = v
        /\ IF crash
           THEN /\ pc' = "crashed"
                /\ exit_code' = 1
                /\ all_valid' = IF explicit /\ ~v.raised /\ ClearsValid(v) THEN FALSE ELSE all_valid
                /\ UNCHANGED <<all_errors, all_warnings>>
           ELSE /\ all_errors' = IF storeErrors THEN DictSet(all_errors, key, v.errors)
                                 ELSE all_errors
                /\ all_warnings' = IF storeWarnings
                                   THEN DictSet(all_warnings, key, v.warnings)
                                   ELSE all_warnings
                /\ all_valid' = IF explicit
                                THEN (IF ClearsValid(v) THEN FALSE ELSE all_valid)
                                ELSE (IF last THEN all_errors' = <<>> ELSE all_valid)
                /\ pc' = IF ~last THEN "loop"
                         ELSE IF tool = "validate" THEN "result" ELSE "warnings"
                /\ UNCHANGED exit_code
        /\ UNCHANGED <<tool, fs, argv, files_to_check, out>>

InLoop(t, explicit) ==
    /\ pc = "loop"
    /\ tool = t
    /\ (argv # <<>>) = explicit
    /\ idx < Len(files_to_check)

\* check_dag_naming.main, the loop over files_to_check
NamingMainLoop ==
    /\ InLoop("naming", TRUE)
    /\ LET f == files_to_check[idx + 1]
       IN  LoopBody(check_dag_file(f, fs), f, TRUE, FALSE)

\* check_dag_naming.check_all_dags, the loop over dag_files
NamingBatchLoop ==
    /\ InLoop("naming", FALSE)
    /\ LET f == files_to_check[idx + 1]
       IN  LoopBody(check_dag_file(f, fs), f, FALSE, FALSE)

\* check_dag_resources.main, the loop over files_to_check
ResourcesMainLoop ==
    /\ InLoop("resources", TRUE)
    /\ LET f == files_to_check[idx + 1]
       IN  LoopBody(check_dag_resources(f, fs), f, TRUE, FALSE)

\* check_dag_resources.check_all_dags, the loop over dag_files
ResourcesBatchLoop ==
    /\ InLoop("resources", FALSE)
    /\ LET f == files_to_check[idx + 1]
       IN  LoopBody(check_dag_resources(f, fs), f, FALSE, FALSE)

\* validate_dags.main, the loop over files_to_check
ValidateMainLoop ==
    /\ InLoop("validate", TRUE)
    /\ LET f == files_to_check[idx + 1]
       IN  LoopBody(validate_dag_file(f, fs), f, TRUE, TRUE)

\* validate_dags.validate_all_dags, the loop over dag_files
ValidateBatchLoop ==
    /\ InLoop("validate", FALSE)
    /\ LET f == files_to_check[idx + 1]
       IN  LoopBody(validate_dag_file(f, fs), f, FALSE, TRUE)

\* `if all_warnings:` of the naming and resource checkers
ReportWarnings ==
    /\ pc = "warnings"
    /\ out' = IF all_warnings # <<>>
              THEN out \o <<Line("warnings_header", <<>>)>> \o BlockLines(all_warnings, "warning")
              ELSE out
    /\ pc' = "result"
    /\ UNCHANGED <<tool, fs, argv, files_to_check, idx, verdict, all_valid,
                   all_errors, all_warnings, exit_code>>

\* an errors block without its remediation lines
NoHint == <<>>

\* the remediation lines that close the errors block
Hint ==
    IF tool = "naming" THEN <<Line("hint", <<>>), Line("hint", <<>>)>>
    ELSE IF tool = "resources"
         THEN <<Line("hint", <<>>), Line("hint", <<>>), Line("hint", <<>>)>>
    ELSE <<>>

\* `if not all_valid:` ... `return 1`
ReportErrors ==
    /\ pc = "result"
    /\ ~all_valid
    /\ out' = out \o <<Line("errors_header", <<>>)>> \o BlockLines(all_errors, "error") \o Hint
    /\ exit_code' = 1
    /\ pc' = "done"
    /\ UNCHANGED <<tool, fs, argv, files_to_check, idx, verdict, all_valid,
                   all_errors, all_warnings>>

\* the closing print and `return 0`
ReportSuccess ==
    /\ pc = "result"
    /\ all_valid
    /\ out' = Append(out, Line(IF tool # "validate" /\ all_warnings # <<>>
                               THEN "success_with_warnings" ELSE "success", <<>>))
    /\ exit_code' = 0
    /\ pc' = "done"
    /\ UNCHANGED <<tool, fs, argv, files_to_check, idx, verdict, all_valid,
                   all_errors, all_warnings>>

Next ==
    \/ Start
    \/ NamingMainLoop
    \/ NamingBatchLoop
    \/ ResourcesMainLoop
    \/ ResourcesBatchLoop
    \/ ValidateMainLoop
    \/ ValidateBatchLoop
    \/ ReportWarnings
    \/ ReportErrors
    \/ ReportSuccess

(* ----------------------------- the inputs ----------------------------- *)
\* the characters identifiers are drawn from: a lowercase letter, a digit,
\* a hyphen, the separator, an uppercase letter, a blank and a line break
Sigma == {"a", "1", "-", "_", "A", " ", "\n"}
Strings(n) == UNION {[1..k -> Sigma] : k \in 0..n}

P_a == <<"d","/","a",".","p","y">>
Id_x_a == <<"x","_","a">>
Id_y_b == <<"y","_","b">>
Id_z_c == <<"z","_","c">>
Id_w_d == <<"w","_","d">>

Start0(t, files, args) ==
    /\ tool = t
    /\ fs = files
    /\ argv = args
    /\ files_to_check = <<>>
    /\ idx = 0
    /\ pc = "start"
    /\ verdict = NoVerdict
    /\ all_valid = TRUE
    /\ all_errors = <<>>
    /\ all_warnings = <<>>
    /\ out = <<>>
    /\ exit_code = -1

\* identifiers with a known tenant, and the known tenants on their own
KnownIds ==
    {t \o <<"_">> \o n : t \in KNOWN_TENANTS, n \in {<<"a">>, <<"a","_","1">>}}
        \cup KNOWN_TENANTS

\* the naming checker on one file whose DAG call carries one literal dag_id
InitNaming ==
    \E v \in {StrV(s) : s \in Strings(MaxLen) \cup KnownIds} \cup {NoneV, IntV(0), IntV(7)} :
        LET f == File(P_a, <<Call("DAG", <<Kw("dag_id", v)>>)>>, <<>>)
        IN  Start0("naming", <<f>>, <<f>>)

\* the ways a limit keyword can appear in a DAG call
LimitKw(a) ==
    {<<>>, <<KwExpr(a)>>}
        \cup {<<Kw(a, v)>> : v \in {NoneV, StrV(<<"a">>)} \cup {IntV(k) : k \in 0..MaxVal}}

\* the resource checker on one file with every pair of limit keywords, the
\* registry knowing no workflow of the file or one
InitResources ==
    \E kr \in LimitKw("max_active_runs"), kt \in LimitKw("max_active_tasks"),
       dags \in {<<>>} \cup {<<Dag(Id_x_a, r, t)>> :
                                r \in {NoneV, IntV(1), IntV(6)}, t \in {NoneV, IntV(4)}} :
        LET f == File(P_a, <<Call("DAG", kr \o kt)>>, dags)
        IN  Start0("resources", <<f>>, <<f>>)

\* the ways a dag_id keyword can appear in a DAG call
DagIdKw ==
    {<<>>, <<KwExpr("dag_id")>>}
        \cup {<<Kw("dag_id", v)>> : v \in {NoneV, StrV(<<>>), StrV(Id_x_a), IntV(0), IntV(7)}}

\* what the registry can hold for one file: up to two workflows
RegistryDags ==
    LET D1 == Dag(Id_x_a, IntV(3), IntV(3))
        D2 == Dag(Id_z_c, IntV(16), IntV(16))
        D3 == Dag(Id_y_b, NoneV, IntV(1))
    IN  {<<>>, <<D1>>, <<D2>>, <<D3>>, <<D2, D1>>, <<D3, D2>>, <<D1, D3>>}

\* static extraction against the registry: one file with one or two calls,
\* that may not parse, whose registry load may raise, beside a sibling whose
\* path contains the file's path
InitMerge ==
    \E t \in {"naming", "resources"}, ki \in DagIdKw,
       kr \in {<<>>, <<Kw("max_active_runs", IntV(0))>>, <<Kw("max_active_runs", IntV(2))>>},
       second \in {<<>>, <<Call("DAG", <<Kw("dag_id", StrV(Id_y_b))>>)>>,
                   <<Call("other", <<Kw("dag_id", StrV(Id_y_b))>>)>>},
       dags \in RegistryDags, sibling \in BOOLEAN,
       flags \in {<<TRUE, FALSE>>, <<FALSE, FALSE>>, <<TRUE, TRUE>>, <<FALSE, TRUE>>} :
        LET f == [File(<<"/","r","/">> \o P_a, <<Call("DAG", ki \o kr)>> \o second, dags)
                      EXCEPT !.parses = flags[1], !.bag_raises = flags[2]]
            g == File(<<"/","r","/">> \o P_a \o M_Py, <<>>, <<Dag(Id_w_d, IntV(1), IntV(1))>>)
        IN  Start0(t, IF sibling THEN <<f, g>> ELSE <<f>>, <<f>>)

\* injective sequences of length lo..hi over the set S
InjSeqs(S, lo, hi) ==
    {s \in UNION {[1..k -> S] : k \in lo..hi} :
        \A i, j \in 1..Len(s) : i # j => s[i] # s[j]}

Id_platform_a == T_platform \o <<"_","a">>
Id_bad == <<"b","a","d">>
Limits(r, t) == <<Kw("max_active_runs", IntV(r)), Kw("max_active_tasks", IntV(t))>>

\* the files a batch run is composed of
F_clean ==
    File(<<"d","/","a",".","p","y">>,
         <<Call("DAG", <<Kw("dag_id", StrV(Id_platform_a))>> \o Limits(1, 3))>>,
         <<Dag(Id_platform_a, IntV(1), IntV(3))>>)
F_warn ==
    File(<<"d","/","b",".","p","y">>,
         <<Call("DAG", <<Kw("dag_id", StrV(Id_x_a))>> \o Limits(2, 3))>>,
         <<Dag(Id_x_a, IntV(2), IntV(3))>>)
F_err ==
    File(<<"/","r","/","d","/","s","/","c",".","p","y">>,
         <<Call("DAG", <<Kw("dag_id", StrV(Id_bad))>> \o Limits(6, 3))>>,
         <<>>)
F_both ==
    File(<<"d","/","e",".","p","y">>,
         <<Call("DAG", <<Kw("dag_id", StrV(Id_y_b)), Kw("max_active_runs", IntV(6))>>),
           Call("DAG", <<Kw("dag_id", StrV(<<"A","b">>))>>)>>,
         <<Dag(Id_y_b, IntV(6), NoneV)>>)
F_crash ==
    [File(<<"d","/","k",".","p","y">>,
          <<Call("DAG", <<Kw("dag_id", IntV(7)), Kw("max_active_runs", StrV(<<"a">>))>>)>>,
          <<>>)
        EXCEPT !.bag_raises = TRUE]
F_outside ==
    File(<<"/","o","/","a",".","p","y">>,
         <<Call("DAG", <<Kw("dag_id", StrV(Id_bad))>> \o Limits(6, 3))>>,
         <<>>)
F_outside_clean ==
    File(<<"/","o","/","b",".","p","y">>,
         <<Call("DAG", <<Kw("dag_id", StrV(Id_platform_a))>> \o Limits(1, 3))>>,
         <<Dag(Id_platform_a, IntV(1), IntV(3))>>)
F_broken ==
    [File(<<"d","/","b","a",".","p","y">>,
          <<Call("DAG", <<Kw("dag_id", StrV(Id_platform_a))>> \o Limits(1, 3))>>,
          <<>>)
        EXCEPT !.import_error = TRUE]
F_missing ==
    [File(<<"d","/","n",".","p","y">>, <<>>, <<>>) EXCEPT !.exists = FALSE]
F_syntax ==
    [File(<<"d","/","q",".","p","y">>, <<>>, <<>>)
        EXCEPT !.parses = FALSE, !.import_error = TRUE]
F_init == File(dags_dir \o <<"/">> \o M_Init, <<>>, <<>>)
F_test == File(dags_dir \o <<"/">> \o M_Test \o <<"a",".","p","y">>, <<>>, <<>>)

Catalogue ==
    {F_clean, F_warn, F_err, F_both, F_crash, F_outside, F_outside_clean,
     F_broken, F_missing, F_syntax, F_init, F_test}

\* every tool over every list of distinct files, named on the command line
\* or found by the directory scan
InitBatch ==
    \E t \in {"naming", "resources", "validate"}, explicit \in BOOLEAN,
       files \in InjSeqs(Catalogue, 0, MaxFiles) :
        /\ explicit => files # <<>>
        /\ Start0(t, files, IF explicit THEN files ELSE <<>>)

\* the file names and directories of a well-formed file beside a broken one
PairNames == {<<"a">>, <<"b">>, <<"b","a">>, <<"a","b">>}
PairDirs == {dags_dir, dags_dir \o <<"/","s">>}
WellFormed(p) ==
    File(p, <<Call("DAG", <<Kw("dag_id", StrV(Id_platform_a))>> \o Limits(1, 3))>>,
         <<Dag(Id_platform_a, IntV(1), IntV(3))>>)
BrokenImport(p) == [File(p, <<>>, <<>>) EXCEPT !.import_error = TRUE]
IsPair(files) ==
    /\ Len(files) = 2
    /\ \E i, j \in 1..2 :
        /\ i # j
        /\ files[i] = WellFormed(files[i].arg)
        /\ files[j] = BrokenImport(files[j].arg)

\* the definition validator over a directory of one well-formed file and one
\* file with a broken import
InitPair ==
    \E gd \in PairDirs, gn \in PairNames, bd \in PairDirs, bn \in PairNames,
       goodFirst \in BOOLEAN :
        LET g == WellFormed(gd \o <<"/">> \o gn \o M_Py)
            b == BrokenImport(bd \o <<"/">> \o bn \o M_Py)
        IN  /\ g.arg # b.arg
            /\ Start0("validate", IF goodFirst THEN <<g, b>> ELSE <<b, g>>, <<>>)

\* the definition validator on one file named on the command line, which
\* may be missing, fail to import, register a workflow or sit in a directory
\* whose registry load raises, alone or beside one sibling
InitValidate ==
    LET p == dags_dir \o <<"/","a",".","p","y">>
        Siblings ==
            {<<>>,
             <<WellFormed(dags_dir \o <<"/","b","a",".","p","y">>)>>,
             <<BrokenImport(dags_dir \o <<"/","b","a",".","p","y">>)>>,
             <<BrokenImport(dags_dir \o <<"/","b",".","p","y">>)>>,
             <<WellFormed(p \o M_Py)>>,
             <<BrokenImport(p \o M_Py)>>}
    IN  \E exists \in BOOLEAN, broken \in BOOLEAN, raises \in BOOLEAN,
           dags \in {<<>>, <<Dag(Id_x_a, IntV(1), IntV(3))>>}, sib \in Siblings :
            LET f == [File(p, <<>>, dags) EXCEPT !.exists = exists,
                                                !.import_error = broken,
                                                !.bag_raises = raises]
            IN  Start0("validate", <<f>> \o sib, <<f>>)

Init ==
    InitNaming \/ InitResources \/ InitMerge \/ InitBatch \/ InitPair \/ InitValidate

Spec == Init /\ [][Next]_vars

(* ------------------------------ properties ---------------------------- *)
\* the file the loop has just been through
Current == files_to_check[idx]
Evaluated(t) == tool = t /\ idx >= 1 /\ pc # "start"

\* s is T + "_" + N with T non-empty over [a-z0-9-] and N non-empty over
\* [a-z0-9_], position i being the first separator
SplitsAt(s, i) ==
    /\ 1 < i
    /\ i < Len(s)
    /\ s[i] = "_"
    /\ \A j \in 1..(i - 1) : s[j] \in TenantClass
    /\ \A j \in (i + 1)..Len(s) : s[j] \in NameClass
WellFormedId(s) == \E i \in 1..Len(s) : SplitsAt(s, i)
TenantOf(s) == Slice(s, 1, (CHOOSE i \in 1..Len(s) : SplitsAt(s, i)) - 1)

\* the line check_dag_file files for identifier s with message m
NamingLine(s, m) == s \o <<":", " ">> \o m
InSeq(x, sq) == \E i \in 1..Len(sq) : sq[i] = x

\* C1: every identifier T_N with T non-empty over [a-z0-9-] and N non-empty
\* over [a-z0-9_] passes check_naming_convention; the message is a warning
\* exactly when T is not a known tenant, and check_dag_file files that
\* message under warnings, never under errors.
C1_WellFormedAccepted ==
    Evaluated("naming") =>
        LET ids == NamingDagIds(Current, fs)
        IN  \A k \in 1..Len(ids) :
                (ids[k].t = "str" /\ WellFormedId(ids[k].s)) =>
                    LET s == ids[k].s
                        r == check_naming_convention(ids[k])
                        unknown == TenantOf(s) \notin KNOWN_TENANTS
                    IN  /\ ~r.raised
                        /\ r.ok
                        /\ (r.message # M_Valid) <=> unknown
                        /\ ~verdict.raised =>
                            /\ ~InSeq(NamingLine(s, r.message), verdict.errors)
                            /\ InSeq(NamingLine(s, r.message), verdict.warnings) <=> unknown

\* an identifier a_b_c with an unknown tenant was checked: valid, one warning
C1_Witness ==
    /\ Evaluated("naming")
    /\ \E k \in 1..Len(NamingDagIds(Current, fs)) :
        LET id == NamingDagIds(Current, fs)[k]
        IN  /\ id.t = "str"
            /\ WellFormedId(id.s)
            /\ Len(id.s) - Len(TenantOf(id.s)) >= 3
            /\ InSeq("_", Slice(id.s, Len(TenantOf(id.s)) + 2, Len(id.s)))
    /\ ~verdict.raised
    /\ verdict.is_valid
    /\ Len(verdict.warnings) = 1

\* C2: check_naming_convention fails for every identifier string that is not
\* of the form T_N above: empty, without separator, with an empty part, with
\* a tenant character outside [a-z0-9-] or a name character outside [a-z0-9_].
C2_MalformedRejected ==
    Evaluated("naming") =>
        LET ids == NamingDagIds(Current, fs)
        IN  \A k \in 1..Len(ids) :
                (ids[k].t = "str" /\ ~WellFormedId(ids[k].s)) =>
                    ~check_naming_convention(ids[k]).ok

M_FieldRuns == <<"m","a","x","_","a","c","t","i","v","e","_","r","u","n","s">>
M_FieldTasks == <<"m","a","x","_","a","c","t","i","v","e","_","t","a","s","k","s">>

\* how many of the messages name the field
Mentions(msgs, field) == Cardinality({i \in 1..Len(msgs) : Contains(msgs[i], field)})

\* the outcome the rules give a limit: <<errors, warnings>>
Outcome(value, default, ceiling) ==
    IF value.t = "none" THEN <<0, 1>>
    ELSE IF value.n > ceiling THEN <<1, 0>>
    ELSE IF value.n > default THEN <<0, 1>>
    ELSE <<0, 0>>

\* C3: each limit is classified on its own (runs: default 1, ceiling 5;
\* tasks: default 3, ceiling 10): unset gives one warning, above the ceiling
\* one error, above the default one warning, otherwise nothing; the file is
\* valid exactly when neither limit gave an error.
C3_LimitsClassified ==
    (Evaluated("resources") /\ ~verdict.raised) =>
        LET config == ResourceConfig(Current, fs)
            runs == Outcome(config.max_active_runs, 1, 5)
            tasks == Outcome(config.max_active_tasks, 3, 10)
        IN  /\ Mentions(verdict.errors, M_FieldRuns) = runs[1]
            /\ Mentions(verdict.warnings, M_FieldRuns) = runs[2]
            /\ Mentions(verdict.errors, M_FieldTasks) = tasks[1]
            /\ Mentions(verdict.warnings, M_FieldTasks) = tasks[2]
            /\ Len(verdict.errors) = runs[1] + tasks[1]
            /\ Len(verdict.warnings) = runs[2] + tasks[2]
            /\ verdict.is_valid <=> (runs[1] = 0 /\ tasks[1] = 0)

\* a file with max_active_runs above its ceiling and max_active_tasks between
\* default and ceiling: one error and one warning together
C3_Witness ==
    /\ Evaluated("resources")
    /\ ~verdict.raised
    /\ ResourceConfig(Current, fs).max_active_runs = IntV(6)
    /\ ResourceConfig(Current, fs).max_active_tasks = IntV(10)
    /\ Len(verdict.errors) = 1
    /\ Len(verdict.warnings) = 1
    /\ ~verdict.is_valid

\* a literal keyword value other than None
Supplied(v) == v # NoneV

\* b starts with a
IsPrefix(a, b) == Len(a) <= Len(b) /\ Slice(b, 1, Len(a)) = a

\* C4: the merge with the registry keeps every field and every identifier
\* that static extraction supplied; it changes only what was left unset.
C4_StaticKept ==
    /\ Evaluated("resources") =>
        LET static == extract_dag_config_from_file(Current)
            merged == ResourceConfig(Current, fs)
        IN  \A k \in {"dag_id", "max_active_runs", "max_active_tasks"} :
                Supplied(static[k]) => merged[k] = static[k]
    /\ Evaluated("naming") =>
        IsPrefix(extract_dag_id_from_file(Current), NamingDagIds(Current, fs))

\* C5: each per-file evaluator returns is_valid true exactly when its error
\* list is empty, whatever its warnings are.
C5_ValidIffNoErrors ==
    (idx >= 1 /\ ~verdict.raised) => (verdict.is_valid <=> verdict.errors = <<>>)

\* a verdict that is valid and carries two warnings
C5_Witness ==
    /\ idx >= 1
    /\ ~verdict.raised
    /\ verdict.is_valid
    /\ verdict.errors = <<>>
    /\ Len(verdict.warnings) = 2

\* what the tool's per-file function returns for file f
FileVerdict(f) ==
    IF tool = "naming" THEN check_dag_file(f, fs)
    ELSE IF tool = "resources" THEN check_dag_resources(f, fs)
    ELSE validate_dag_file(f, fs)
SomeFileHasError ==
    \E i \in 1..Len(files_to_check) : FileVerdict(files_to_check[i]).errors # <<>>
SomeFileHasWarning ==
    \E i \in 1..Len(files_to_check) : FileVerdict(files_to_check[i]).warnings # <<>>

\* C6: a run that completes returns 1 exactly when some checked file has an
\* error, and 0 otherwise, in both modes of all three tools; warnings alone
\* give 0.
C6_ExitCode ==
    pc = "done" => exit_code = (IF SomeFileHasError THEN 1 ELSE 0)

\* a completed run over two files that both carry warnings, exit code 0
C6_Witness ==
    /\ pc = "done"
    /\ exit_code = 0
    /\ Len(files_to_check) = 2
    /\ Len(all_warnings) = 2

\* C7: the definition validator over a directory of one well-formed file and
\* one file with a broken import exits with 1 and its error map has the
\* broken file as its only key, whatever the two files are called.
C7_OnlyBrokenBlamed ==
    (tool = "validate" /\ argv = <<>> /\ IsPair(fs) /\ pc = "done") =>
        /\ exit_code = 1
        /\ \A i \in 1..2 :
            fs[i].import_error =>
                DictKeys(all_errors) = {RelativeTo(PathOf(fs[i]), project_root)}

\* C8: in the naming and the resource checker no file stops the run: every
\* file of the list is evaluated and the run reaches its report.
C8_NeverAborts ==
    tool \in {"naming", "resources"} =>
        /\ pc # "crashed"
        /\ pc \in {"warnings", "result", "done"} => idx = Len(files_to_check)

\* static extraction finds an identifier in f: the file opens and parses and
\* some DAG call has a literal dag_id keyword
StaticFinds(f) ==
    /\ f.exists
    /\ f.parses
    /\ \E i \in 1..Len(f.calls) :
        /\ f.calls[i].func = "DAG"
        /\ \E j \in 1..Len(f.calls[i].keywords) :
            f.calls[i].keywords[j].arg = "dag_id" /\ f.calls[i].keywords[j].literal

\* the registry fallback finds an identifier for f: the load does not raise
\* and some importable file below f's directory, whose path contains f's
\* path, registers a workflow
RegistryFinds(f) ==
    /\ ~f.bag_raises
    /\ \E i \in 1..Len(fs) :
        /\ fs[i].exists
        /\ ~fs[i].import_error
        /\ fs[i].dags # <<>>
        /\ IsUnder(PathOf(fs[i]), Parent(PathOf(f)))
        /\ Contains(PathOf(fs[i]), PathOf(f))

\* C9: in the naming checker a file with no identifier from either source is
\* invalid with the single error 'No DAG ID found in file' and no warning; a
\* file with an identifier never gets that error.
C9_NoIdentifier ==
    (Evaluated("naming") /\ ~verdict.raised) =>
        IF StaticFinds(Current) \/ RegistryFinds(Current)
        THEN ~InSeq(M_NoDagId, verdict.errors)
        ELSE /\ ~verdict.is_valid
             /\ verdict.errors = <<M_NoDagId>>
             /\ verdict.warnings = <<>>

\* a file that does not parse and whose registry load raises: the single error
C9_Witness ==
    /\ Evaluated("naming")
    /\ ~Current.parses
    /\ Current.bag_raises
    /\ Current.calls # <<>>
    /\ verdict.errors = <<M_NoDagId>>
    /\ verdict.warnings = <<>>
    /\ ~verdict.is_valid

Banners == {"success", "success_with_warnings", "failure"}
HasLine(kind) == \E i \in 1..Len(out) : out[i].kind = kind
CountLines(kind) == Cardinality({i \in 1..Len(out) : out[i].kind = kind})
\* where a line belongs: 1 warnings block, 2 errors block, 3 remediation
\* lines, 4 banner; 0 for the path lines both blocks have
Rank(kind) ==
    IF kind \in {"warnings_header", "warning"} THEN 1
    ELSE IF kind \in {"errors_header", "error"} THEN 2
    ELSE IF kind = "hint" THEN 3
    ELSE IF kind \in Banners THEN 4
    ELSE 0
InOrder ==
    \A i, j \in 1..Len(out) :
        (i < j /\ Rank(out[i].kind) # 0 /\ Rank(out[j].kind) # 0) =>
            Rank(out[i].kind) <= Rank(out[j].kind)

\* C10 as stated: every completed run of the naming and resource tools ends
\* with a one-line banner stating success or failure, after the blocks.
C10_BannerAlways ==
    (tool \in {"naming", "resources"} /\ pc = "done") =>
        /\ out # <<>>
        /\ out[Len(out)].kind \in Banners
        /\ InOrder

\* C10 as amended: the warnings block comes first (only if some file has a
\* warning), then the errors block closed by its remediation lines (only if
\* some file has an error), then, only in a run without errors, one success
\* banner as the last line; a run with errors ends with the remediation
\* lines and prints no banner.
C10_ReportOrder ==
    (tool \in {"naming", "resources"} /\ pc = "done") =>
        /\ InOrder
        /\ CountLines("warnings_header") = (IF SomeFileHasWarning THEN 1 ELSE 0)
        /\ CountLines("errors_header") = (IF SomeFileHasError THEN 1 ELSE 0)
        /\ HasLine("warning") <=> SomeFileHasWarning
        /\ HasLine("error") <=> SomeFileHasError
        /\ out # <<>>
        /\ IF SomeFileHasError
           THEN /\ out[Len(out)].kind = "hint"
                /\ \A i \in 1..Len(out) : out[i].kind \notin Banners
           ELSE /\ out[Len(out)].kind \in Banners
                /\ Cardinality({i \in 1..Len(out) : out[i].kind \in Banners}) = 1

\* a completed run that printed both blocks and no banner
C10_Witness ==
    /\ tool = "naming"
    /\ pc = "done"
    /\ HasLine("warnings_header")
    /\ HasLine("errors_header")
    /\ out[Len(out)].kind = "hint"

\* the key a file is stored under
KeyOf(f) == RelativeTo(PathOf(f), project_root)
\* the files the loop has been through and whose lists it could store
Stored ==
    {i \in 1..idx : ~(pc = "crashed" /\ i = idx)}

\* C11: at every point of a batch run (the batch functions and the loops of
\* main) the error map and the warning map are sparse: every key maps to a
\* non-empty list, which is the list the per-file function returned for the
\* file of that key; a file with no errors has no key in the error map and a
\* file with no warnings has no key in the warning map.
C11_SparseMaps ==
    /\ \A k \in 1..Len(all_errors) :
        /\ all_errors[k].val # <<>>
        /\ \A l \in 1..Len(all_errors) : all_errors[l].key = all_errors[k].key => l = k
        /\ \E i \in Stored :
            /\ KeyOf(files_to_check[i]) = all_errors[k].key
            /\ FileVerdict(files_to_check[i]).errors = all_errors[k].val
    /\ \A k \in 1..Len(all_warnings) :
        /\ all_warnings[k].val # <<>>
        /\ \A l \in 1..Len(all_warnings) : all_warnings[l].key = all_warnings[k].key => l = k
        /\ \E i \in Stored :
            /\ KeyOf(files_to_check[i]) = all_warnings[k].key
            /\ FileVerdict(files_to_check[i]).warnings = all_warnings[k].val
    /\ \A i \in Stored :
        LET f == files_to_check[i]
            v == FileVerdict(f)
        IN  /\ (KeyOf(f) \in DictKeys(all_errors)) <=> (v.errors # <<>>)
            /\ (KeyOf(f) \in DictKeys(all_warnings)) <=> (v.warnings # <<>>)

\* two files were processed: the first has only errors, the second only
\* warnings, and each map has the one key
C11_Witness ==
    /\ idx = 2
    /\ pc # "crashed"
    /\ DictKeys(all_errors) = {KeyOf(files_to_check[1])}
    /\ DictKeys(all_warnings) = {KeyOf(files_to_check[2])}
    /\ FileVerdict(files_to_check[1]).warnings = <<>>
    /\ FileVerdict(files_to_check[2]).errors = <<>>

\* the registry holds an import error whose path contains f's path or name
ImportErrorAttributed(f) ==
    \E i \in 1..Len(fs) :
        /\ fs[i].exists
        /\ fs[i].import_error
        /\ IsUnder(PathOf(fs[i]), Parent(PathOf(f)))
        /\ \/ Contains(PathOf(fs[i]), PathOf(f))
           \/ Contains(PathOf(fs[i]), BaseName(PathOf(f)))

\* the registry holds a workflow whose fileloc contains f's path
WorkflowMapsBack(f) ==
    \E i \in 1..Len(fs) :
        /\ fs[i].exists
        /\ ~fs[i].import_error
        /\ fs[i].dags # <<>>
        /\ IsUnder(PathOf(fs[i]), Parent(PathOf(f)))
        /\ Contains(PathOf(fs[i]), PathOf(f))

HasErrorWith(prefix) ==
    \E i \in 1..Len(verdict.errors) : IsPrefix(prefix, verdict.errors[i])

\* C12: validate_dag_file answers a missing file with the single error 'DAG
\* file not found' without loading the registry; for an existing file it
\* gives the 'DAG not found' error exactly when no workflow maps back to the
\* file and no import error is attributed to it, never together with an
\* import-error message, and it is valid exactly when no import error is
\* attributed and some workflow maps back.
C12_ValidateVerdict ==
    Evaluated("validate") =>
        IF ~Current.exists
        THEN /\ ~verdict.raised
             /\ ~verdict.is_valid
             /\ verdict.errors = <<M_NotFoundFile \o PathOf(Current)>>
        ELSE ~verdict.raised =>
             /\ HasErrorWith(M_DagNotFound) <=>
                    (~WorkflowMapsBack(Current) /\ ~ImportErrorAttributed(Current))
             /\ ~(HasErrorWith(M_DagNotFound) /\ HasErrorWith(M_ImportErr))
             /\ HasErrorWith(M_ImportErr) <=> ImportErrorAttributed(Current)
             /\ verdict.is_valid <=>
                    (~ImportErrorAttributed(Current) /\ WorkflowMapsBack(Current))

\* a missing file in a directory whose registry load would raise: the single
\* 'DAG file not found' error, and no exception
C12_Witness ==
    /\ Evaluated("validate")
    /\ ~Current.exists
    /\ Current.bag_raises
    /\ ~verdict.raised
    /\ verdict.errors = <<M_NotFoundFile \o PathOf(Current)>>

====
